---- MODULE Spec2Model ----
(***************************************************************************)
(* Model of klient/wait/conditions/conditions.go: the Condition builder    *)
(* and the polling predicates (wait.ConditionFunc closures) it produces.   *)
(*                                                                         *)
(* A test holds one Condition (c), one target object (obj) and the         *)
(* predicate it is currently polling (pred).  Every invocation of the      *)
(* predicate performs one fetch through c.resources.Get; the outcome of    *)
(* that fetch (an error, or the state the API server returned) is an       *)
(* input chosen by the environment.                                        *)
(*                                                                         *)
(* Every record constructor lists its fields in the order in which the     *)
(* field names first occur in this module, the order TLC keeps them in.    *)
(***************************************************************************)
EXTENDS Naturals, Sequences, FiniteSets

VARIABLES
    c,       \* the Condition: [resources, verbose]
    obj,     \* the target object shared by the caller and the predicate
    pred,    \* the closure being polled (NoPred before any factory call)
    last     \* history: the latest invocation of pred and what it returned

vars == <<c, obj, pred, last>>

----------------------------------------------------------------------------
\* Bounds of the model.

\* longest status.conditions list the API server returns
MaxConds == 2
\* largest replica count (scaleFetcher's result and the awaited replica)
MaxReplicas == 2

----------------------------------------------------------------------------
\* Errors.

Nil == "nil"
ErrNotFound == "NotFound"
ErrForbidden == "Forbidden"
ErrTimeout == "Timeout"
FetchErrors == {ErrNotFound, ErrForbidden, ErrTimeout}

IsNotFound(err) == err = ErrNotFound

----------------------------------------------------------------------------
\* The API's vocabulary used by the file.

PodReadyType == "Ready"
ContainersReadyType == "ContainersReady"
PodRunningPhase == "Running"
JobCompleteType == "Complete"
JobFailedType == "Failed"
ConditionTrue == "True"

ConditionStatuses == {ConditionTrue, "False", "Unknown"}
PodConditionTypes == {PodReadyType, ContainersReadyType}
JobConditionTypes == {JobCompleteType, JobFailedType}
PodPhases == {"Pending", PodRunningPhase, "Succeeded"}
Replicas == 0..MaxReplicas

Kinds == {"Pod", "Job", "Deployment"}

\* The entries a fetched status.conditions list is made of, chosen so that
\* against an expected (type, status) there are entries matching both, only
\* the type, only the status, and neither.
PodConditionEntries ==
    {[type |-> PodReadyType, status |-> s] : s \in ConditionStatuses}
        \cup {[type |-> ContainersReadyType, status |-> ConditionTrue]}

JobConditionEntries ==
    {[type |-> JobCompleteType, status |-> s] : s \in {ConditionTrue, "False"}}
        \cup {[type |-> JobFailedType, status |-> ConditionTrue]}

\* Lists of at most MaxConds entries, in any order, duplicates included.
ConditionsOver(entries) == UNION {[1..n -> entries] : n \in 0..MaxConds}

\* The object as the caller builds it: name and namespace set, status empty.
EmptyObj(kind) == [kind |-> kind, phase |-> "", conditions |-> <<>>, replicas |-> 0]

\* No object: what a failed fetch returns.
NoObj == [kind |-> "none", phase |-> "", conditions |-> <<>>, replicas |-> 0]

\* The states of a pod that a fetch can return, bounded to those with any
\* phase and no conditions and those that are Running with any list of
\* conditions.
PodStates ==
    {[kind |-> "Pod", phase |-> p, conditions |-> <<>>, replicas |-> 0] : p \in PodPhases}
        \cup {[kind |-> "Pod", phase |-> PodRunningPhase, conditions |-> cs, replicas |-> 0] :
                 cs \in ConditionsOver(PodConditionEntries)}

JobStates ==
    {[kind |-> "Job", phase |-> "", conditions |-> cs, replicas |-> 0] :
        cs \in ConditionsOver(JobConditionEntries)}

DeploymentStates ==
    {[kind |-> "Deployment", phase |-> "", conditions |-> <<>>, replicas |-> n] :
        n \in Replicas}

FetchFailures == {[err |-> e, state |-> NoObj] : e \in FetchErrors}

PodFetches == {[err |-> Nil, state |-> s] : s \in PodStates} \cup FetchFailures

JobFetches == {[err |-> Nil, state |-> s] : s \in JobStates} \cup FetchFailures

DeploymentFetches == {[err |-> Nil, state |-> s] : s \in DeploymentStates} \cup FetchFailures

\* The outcomes of one fetch of an object of the given kind: the state the API
\* server returns, or an error.
FetchOutcomes(kind) ==
    CASE kind = "Pod" -> PodFetches
      [] kind = "Job" -> JobFetches
      [] OTHER -> DeploymentFetches

----------------------------------------------------------------------------
\* The builder.

New(r) == [resources |-> r, verbose |-> FALSE]

\* log prints only when verbose is set; the value is whether a line was printed.
log(bld) == bld.verbose

\* c.resources.Get(ctx, name, namespace, obj): on success the fetched state is
\* decoded into obj, on failure obj is left as it was.
Get(o, out) == [obj |-> IF out.err = Nil THEN out.state ELSE o, err |-> out.err]

\* The scaleFetcher the caller passes to ResourceScaled.
scaleFetcher(o) == o.replicas

----------------------------------------------------------------------------
\* Predicates.  A closure keeps the reference to the target object and the
\* expected values it was built with; it reads c and the object when invoked.

TargetRef == "obj"

Closure(factory, ref, conditionType, conditionState, phase, replica) ==
    [phase |-> phase, factory |-> factory, conditionType |-> conditionType,
     conditionState |-> conditionState, replica |-> replica, target |-> ref]

NoClosure == Closure("none", "", "", "", "", 0)

\* What one invocation yields: the returned (done, err), the target object and
\* the builder as the invocation leaves them, and what the invocation did
\* (fetches made, whether the fetched object's fields were read, whether a
\* line was logged).
Outcome(done, err, o, bld, fetches, inspected) ==
    [c |-> bld, obj |-> o, err |-> err, done |-> done, fetches |-> fetches,
     inspected |-> inspected, logged |-> log(bld)]

\* --- ResourceScaled --------------------------------------------------------

ResourceScaled(ref, replica) == Closure("ResourceScaled", ref, "", "", "", replica)

\* Faulty variant: counts the resource as scaled once it has at least replica replicas.
ResourceScaledFn_AtLeast(cl, bld, o, out) ==
    LET g == Get(o, out) IN
    IF g.err # Nil
        THEN Outcome(FALSE, Nil, g.obj, bld, 1, FALSE)
        ELSE Outcome(scaleFetcher(g.obj) >= cl.replica, Nil, g.obj, bld, 1, TRUE)

\* Faulty variant: returns the fetch error, as the other match predicates do.
ResourceScaledFn_Propagate(cl, bld, o, out) ==
    LET g == Get(o, out) IN
    IF g.err # Nil
        THEN Outcome(FALSE, g.err, g.obj, bld, 1, FALSE)
        ELSE Outcome(scaleFetcher(g.obj) = cl.replica, Nil, g.obj, bld, 1, TRUE)

ResourceScaledFn(cl, bld, o, out) ==
    LET g == Get(o, out) IN
    IF g.err # Nil
        THEN Outcome(FALSE, Nil, g.obj, bld, 1, FALSE)
        ELSE Outcome(scaleFetcher(g.obj) = cl.replica, Nil, g.obj, bld, 1, TRUE)

\* --- ResourceDeleted -------------------------------------------------------

ResourceDeleted(ref) == Closure("ResourceDeleted", ref, "", "", "", 0)

\* Faulty variant: no special case for not-found.
ResourceDeletedFn_NoNotFound(cl, bld, o, out) ==
    LET g == Get(o, out) IN
    IF g.err # Nil
        THEN Outcome(FALSE, g.err, g.obj, bld, 1, FALSE)
        ELSE Outcome(FALSE, Nil, g.obj, bld, 1, FALSE)

\* Faulty variant: reports the deletion and still returns the not-found error.
ResourceDeletedFn_DoneWithErr(cl, bld, o, out) ==
    LET g == Get(o, out) IN
    IF g.err # Nil
        THEN Outcome(IsNotFound(g.err), g.err, g.obj, bld, 1, FALSE)
        ELSE Outcome(FALSE, Nil, g.obj, bld, 1, FALSE)

ResourceDeletedFn(cl, bld, o, out) ==
    LET g == Get(o, out) IN
    IF g.err # Nil
        THEN IF IsNotFound(g.err)
                 THEN Outcome(TRUE, Nil, g.obj, bld, 1, FALSE)
                 ELSE Outcome(FALSE, g.err, g.obj, bld, 1, FALSE)
        ELSE Outcome(FALSE, Nil, g.obj, bld, 1, FALSE)

\* --- JobConditionMatch -----------------------------------------------------

JobConditionMatch(ref, conditionType, conditionState) ==
    Closure("JobConditionMatch", ref, conditionType, conditionState, "", 0)

\* Faulty variant: the loop compares the status only.
RECURSIVE JobConditionsLoop_StatusOnly(_, _, _, _, _)
JobConditionsLoop_StatusOnly(conds, i, conditionType, conditionState, done) ==
    IF i > Len(conds)
        THEN done
        ELSE JobConditionsLoop_StatusOnly(conds, i + 1, conditionType, conditionState,
                 IF conds[i].status = conditionState THEN TRUE ELSE done)

\* The range loop over job.Status.Conditions, from entry i on, with the named
\* result done as it stands.
RECURSIVE JobConditionsLoop(_, _, _, _, _)
JobConditionsLoop(conds, i, conditionType, conditionState, done) ==
    IF i > Len(conds)
        THEN done
        ELSE JobConditionsLoop(conds, i + 1, conditionType, conditionState,
                 IF conds[i].type = conditionType /\ conds[i].status = conditionState
                     THEN TRUE
                     ELSE done)

\* Faulty variant: fetches into a copy, so the caller's object is never updated.
JobConditionMatchFn_FetchIntoCopy(cl, bld, o, out) ==
    LET g == Get(o, out) IN
    IF g.err # Nil
        THEN Outcome(FALSE, g.err, o, bld, 1, FALSE)
        ELSE Outcome(JobConditionsLoop(g.obj.conditions, 1, cl.conditionType,
                                       cl.conditionState, FALSE),
                     Nil, o, bld, 1, TRUE)

JobConditionMatchFn(cl, bld, o, out) ==
    LET g == Get(o, out) IN
    IF g.err # Nil
        THEN Outcome(FALSE, g.err, g.obj, bld, 1, FALSE)
        ELSE Outcome(JobConditionsLoop(g.obj.conditions, 1, cl.conditionType,
                                       cl.conditionState, FALSE),
                     Nil, g.obj, bld, 1, TRUE)

\* --- PodConditionMatch -----------------------------------------------------

PodConditionMatch(ref, conditionType, conditionState) ==
    Closure("PodConditionMatch", ref, conditionType, conditionState, "", 0)

\* Faulty variant: done is assigned the comparison, so the last entry decides.
RECURSIVE PodConditionsLoop_LastWins(_, _, _, _, _)
PodConditionsLoop_LastWins(conds, i, conditionType, conditionState, done) ==
    IF i > Len(conds)
        THEN done
        ELSE PodConditionsLoop_LastWins(conds, i + 1, conditionType, conditionState,
                 conds[i].type = conditionType /\ conds[i].status = conditionState)

RECURSIVE PodConditionsLoop(_, _, _, _, _)
PodConditionsLoop(conds, i, conditionType, conditionState, done) ==
    IF i > Len(conds)
        THEN done
        ELSE PodConditionsLoop(conds, i + 1, conditionType, conditionState,
                 IF conds[i].type = conditionType /\ conds[i].status = conditionState
                     THEN TRUE
                     ELSE done)

\* Faulty variant: a not-found pod is "not yet", the error is dropped.
PodConditionMatchFn_SwallowNotFound(cl, bld, o, out) ==
    LET g == Get(o, out) IN
    IF g.err # Nil
        THEN Outcome(FALSE, IF IsNotFound(g.err) THEN Nil ELSE g.err, g.obj, bld, 1, FALSE)
        ELSE Outcome(PodConditionsLoop(g.obj.conditions, 1, cl.conditionType,
                                       cl.conditionState, FALSE),
                     Nil, g.obj, bld, 1, TRUE)

PodConditionMatchFn(cl, bld, o, out) ==
    LET g == Get(o, out) IN
    IF g.err # Nil
        THEN Outcome(FALSE, g.err, g.obj, bld, 1, FALSE)
        ELSE Outcome(PodConditionsLoop(g.obj.conditions, 1, cl.conditionType,
                                       cl.conditionState, FALSE),
                     Nil, g.obj, bld, 1, TRUE)

\* --- PodPhaseMatch ---------------------------------------------------------

PodPhaseMatch(ref, phase) == Closure("PodPhaseMatch", ref, "", "", phase, 0)

\* Faulty variant: once the phase was matched the predicate stays done.
PodPhaseMatchFn_Latched(cl, bld, o, out) ==
    LET g == Get(o, out) IN
    IF g.err # Nil
        THEN Outcome(FALSE, g.err, g.obj, bld, 1, FALSE)
        ELSE Outcome(last.done \/ g.obj.phase = cl.phase, Nil, g.obj, bld, 1, TRUE)

PodPhaseMatchFn(cl, bld, o, out) ==
    LET g == Get(o, out) IN
    IF g.err # Nil
        THEN Outcome(FALSE, g.err, g.obj, bld, 1, FALSE)
        ELSE Outcome(g.obj.phase = cl.phase, Nil, g.obj, bld, 1, TRUE)

\* --- The derived predicates ------------------------------------------------

\* Faulty variant: PodReady waits for the ContainersReady condition.
PodReady_ContainersReady(ref) == PodConditionMatch(ref, ContainersReadyType, ConditionTrue)

PodReady(ref) == PodConditionMatch(ref, PodReadyType, ConditionTrue)

ContainersReady(ref) == PodConditionMatch(ref, ContainersReadyType, ConditionTrue)

PodRunning(ref) == PodPhaseMatch(ref, PodRunningPhase)

JobCompleted(ref) == JobConditionMatch(ref, JobCompleteType, ConditionTrue)

JobFailed(ref) == JobConditionMatch(ref, JobFailedType, ConditionTrue)

\* Calling a closure runs the body of the factory that made it.
Call(cl, bld, o, out) ==
    CASE cl.factory = "ResourceScaled" -> ResourceScaledFn(cl, bld, o, out)
      [] cl.factory = "ResourceDeleted" -> ResourceDeletedFn(cl, bld, o, out)
      [] cl.factory = "JobConditionMatch" -> JobConditionMatchFn(cl, bld, o, out)
      [] cl.factory = "PodConditionMatch" -> PodConditionMatchFn(cl, bld, o, out)
      [] OTHER -> PodPhaseMatchFn(cl, bld, o, out)

----------------------------------------------------------------------------
\* State machine.

NoPred == [fn |-> NoClosure, via |-> "none"]

\* flipped: this invocation and the one before it both returned a nil error,
\* and their done values differ.
NoCall == [err |-> Nil, done |-> FALSE, fetches |-> 0, inspected |-> FALSE,
           logged |-> FALSE, called |-> FALSE, fetchErr |-> Nil, fetched |-> NoObj,
           flipped |-> FALSE]

Init ==
    /\ c = New("resources")
    /\ \E k \in Kinds : obj = EmptyObj(k)
    /\ pred = NoPred
    /\ last = NoCall

WithVerboseLog ==
    /\ c' = [c EXCEPT !.verbose = TRUE]
    /\ UNCHANGED <<obj, pred, last>>

\* The test takes a predicate from a factory and polls it from now on.  The
\* factories assert the object's kind when invoked (job.(*batchv1.Job),
\* pod.(*v1.Pod)); a test passes them an object of that kind.
Take(cl, via) ==
    /\ pred' = [fn |-> cl, via |-> via]
    /\ last' = NoCall
    /\ UNCHANGED <<c, obj>>

MakeResourceScaled ==
    /\ obj.kind = "Deployment"
    /\ \E n \in Replicas : Take(ResourceScaled(TargetRef, n), "ResourceScaled")

MakeResourceDeleted == Take(ResourceDeleted(TargetRef), "ResourceDeleted")

MakeJobConditionMatch ==
    /\ obj.kind = "Job"
    /\ \E t \in JobConditionTypes, s \in ConditionStatuses :
           Take(JobConditionMatch(TargetRef, t, s), "JobConditionMatch")

MakePodConditionMatch ==
    /\ obj.kind = "Pod"
    /\ \E t \in PodConditionTypes, s \in ConditionStatuses :
           Take(PodConditionMatch(TargetRef, t, s), "PodConditionMatch")

MakePodPhaseMatch ==
    /\ obj.kind = "Pod"
    /\ \E p \in PodPhases : Take(PodPhaseMatch(TargetRef, p), "PodPhaseMatch")

MakePodReady == obj.kind = "Pod" /\ Take(PodReady(TargetRef), "PodReady")

MakeContainersReady == obj.kind = "Pod" /\ Take(ContainersReady(TargetRef), "ContainersReady")

MakePodRunning == obj.kind = "Pod" /\ Take(PodRunning(TargetRef), "PodRunning")

MakeJobCompleted == obj.kind = "Job" /\ Take(JobCompleted(TargetRef), "JobCompleted")

MakeJobFailed == obj.kind = "Job" /\ Take(JobFailed(TargetRef), "JobFailed")

\* The poller invokes the predicate once; the fetch has one of its outcomes.
Invoke ==
    /\ pred # NoPred
    /\ \E out \in FetchOutcomes(obj.kind) :
           LET r == Call(pred.fn, c, obj, out) IN
           /\ c' = r.c
           /\ obj' = r.obj
           /\ last' = [err |-> r.err, done |-> r.done, fetches |-> r.fetches,
                       inspected |-> r.inspected, logged |-> r.logged,
                       called |-> TRUE, fetchErr |-> out.err, fetched |-> out.state,
                       flipped |-> /\ last.called
                                   /\ last.err = Nil /\ r.err = Nil
                                   /\ last.done # r.done]
    /\ UNCHANGED pred

Next ==
    \/ WithVerboseLog
    \/ MakeResourceScaled
    \/ MakeResourceDeleted
    \/ MakeJobConditionMatch
    \/ MakePodConditionMatch
    \/ MakePodPhaseMatch
    \/ MakePodReady
    \/ MakeContainersReady
    \/ MakePodRunning
    \/ MakeJobCompleted
    \/ MakeJobFailed
    \/ Invoke

Spec == Init /\ [][Next]_vars

----------------------------------------------------------------------------
\* Properties.

\* The latest invocation was of a predicate made by factory f.
Polled(f) == last.called /\ pred.fn.factory = f

\* The latest invocation was of a predicate taken from the factory named v.
PolledVia(v) == last.called /\ pred.via = v

Fetched == last.fetchErr = Nil

\* conds has an entry with type t and status s.
HasCondition(conds, t, s) ==
    \E i \in 1..Len(conds) : conds[i].type = t /\ conds[i].status = s

\* The (done, err) the specification gives a predicate built with the expected
\* values of cl for a fetch that failed with e (Nil: returned state s).
Expected(cl, e, s) ==
    CASE cl.factory = "ResourceScaled" ->
           <<e = Nil /\ s.replicas = cl.replica, Nil>>
      [] cl.factory = "ResourceDeleted" ->
           <<e = ErrNotFound, IF e = ErrNotFound THEN Nil ELSE e>>
      [] cl.factory \in {"JobConditionMatch", "PodConditionMatch"} ->
           <<e = Nil /\ HasCondition(s.conditions, cl.conditionType, cl.conditionState), e>>
      [] OTHER ->
           <<e = Nil /\ s.phase = cl.phase, e>>

\* C1: an invocation of a ResourceDeleted predicate returns (true, nil) when
\* the fetch fails with not-found, (false, err) with the fetch error when it
\* fails with any other error, and (false, nil) when the fetch succeeds.
C1_ResourceDeletedOutcomes ==
    Polled("ResourceDeleted") =>
        /\ last.fetchErr = ErrNotFound => (last.done /\ last.err = Nil)
        /\ last.fetchErr \notin {Nil, ErrNotFound} =>
               (~last.done /\ last.err = last.fetchErr)
        /\ last.fetchErr = Nil => (~last.done /\ last.err = Nil)

C1_Witness ==
    /\ Polled("ResourceDeleted")
    /\ last.fetchErr = ErrForbidden
    /\ last.err = ErrForbidden
    /\ obj.kind = "Job" /\ obj.conditions # <<>>

\* C2: an invocation of ResourceScaled(obj, scaleFetcher, N) whose fetch
\* succeeds returns (true, nil) if scaleFetcher of the fetched object is N and
\* (false, nil) otherwise.
C2_ResourceScaledMatch ==
    (Polled("ResourceScaled") /\ Fetched) =>
        /\ last.err = Nil
        /\ last.done = (scaleFetcher(last.fetched) = pred.fn.replica)

C2_Witness ==
    /\ Polled("ResourceScaled") /\ Fetched
    /\ pred.fn.replica = 1
    /\ last.done
    /\ last.flipped

\* C3: a ResourceScaled predicate never returns an error: a failed fetch, be
\* it not-found, gives (false, nil) without a call of scaleFetcher, so a
\* poller that stops on done or on an error stops only on done = true.
C3_ResourceScaledSwallows ==
    Polled("ResourceScaled") =>
        /\ last.err = Nil
        /\ ~Fetched => (~last.done /\ ~last.inspected)
        /\ (last.done \/ last.err # Nil) => last.done

C3_Witness ==
    /\ Polled("ResourceScaled")
    /\ last.fetchErr = ErrNotFound
    /\ ~last.done /\ last.err = Nil
    /\ obj.replicas = pred.fn.replica

\* C4: an invocation of a PodConditionMatch, JobConditionMatch or
\* PodPhaseMatch predicate (the derived ones included) whose fetch fails with
\* any error returns (false, err) with exactly that error and does not read
\* the object's conditions or phase.
C4_MatchPropagatesFetchError ==
    (/\ last.called
     /\ pred.fn.factory \in {"PodConditionMatch", "JobConditionMatch", "PodPhaseMatch"}
     /\ ~Fetched) =>
        /\ ~last.done
        /\ last.err = last.fetchErr
        /\ ~last.inspected

C4_Witness ==
    /\ PolledVia("PodReady")
    /\ last.fetchErr = ErrNotFound
    /\ last.err = ErrNotFound
    /\ HasCondition(obj.conditions, "Ready", "True")

\* C5: an invocation of PodConditionMatch(pod, T, S) whose fetch succeeds
\* returns done = true with a nil error iff some entry of the fetched list has
\* both type T and status S.
C5_PodConditionMatchIff ==
    (Polled("PodConditionMatch") /\ Fetched) =>
        /\ last.err = Nil
        /\ last.done <=> HasCondition(last.fetched.conditions,
                                      pred.fn.conditionType, pred.fn.conditionState)

\* A matching entry followed by one that matches the type only.
C5_Witness ==
    /\ Polled("PodConditionMatch") /\ Fetched
    /\ last.done
    /\ Len(last.fetched.conditions) = 2
    /\ last.fetched.conditions[1].type = pred.fn.conditionType
    /\ last.fetched.conditions[1].status = pred.fn.conditionState
    /\ last.fetched.conditions[2].type = pred.fn.conditionType
    /\ last.fetched.conditions[2].status # pred.fn.conditionState

\* What the other of JobCompleted and JobFailed returns for the fetch the
\* latest invocation made.
OtherOnSameFetch(cl) == Call(cl, c, obj, [err |-> last.fetchErr, state |-> last.fetched])

\* C6: an invocation of JobConditionMatch(job, T, S) whose fetch succeeds
\* returns done = true iff some entry has type T and status S; for one fetched
\* job state JobCompleted and JobFailed both return (true, nil) iff the list
\* has an entry (Complete, True) and an entry (Failed, True).
C6_JobConditionMatchIff ==
    /\ (Polled("JobConditionMatch") /\ Fetched) =>
           /\ last.err = Nil
           /\ last.done <=> HasCondition(last.fetched.conditions,
                                         pred.fn.conditionType, pred.fn.conditionState)
    /\ (PolledVia("JobCompleted") /\ Fetched) =>
           LET f == OtherOnSameFetch(JobFailed(TargetRef)) IN
           (last.done /\ last.err = Nil /\ f.done /\ f.err = Nil)
               <=> (/\ HasCondition(last.fetched.conditions, "Complete", "True")
                    /\ HasCondition(last.fetched.conditions, "Failed", "True"))
    /\ (PolledVia("JobFailed") /\ Fetched) =>
           LET f == OtherOnSameFetch(JobCompleted(TargetRef)) IN
           (last.done /\ last.err = Nil /\ f.done /\ f.err = Nil)
               <=> (/\ HasCondition(last.fetched.conditions, "Complete", "True")
                    /\ HasCondition(last.fetched.conditions, "Failed", "True"))

C6_Witness ==
    /\ PolledVia("JobFailed") /\ Fetched
    /\ last.done
    /\ last.fetched.conditions =
           <<[type |-> "Failed", status |-> "True"], [type |-> "Complete", status |-> "True"]>>

\* C7: every invocation makes one fetch and its result is the one the fetch
\* outcome and the expected values give, whatever earlier invocations
\* returned; PodRunning returns (false, nil) on phase Pending and (true, nil)
\* on phase Running, ResourceDeleted (false, nil) on a fetched object and
\* (true, nil) on not-found.
C7_ResultFromThisFetchOnly ==
    last.called =>
        /\ last.fetches = 1
        /\ <<last.done, last.err>> = Expected(pred.fn, last.fetchErr, last.fetched)
        /\ (pred.via = "PodRunning" /\ Fetched /\ last.fetched.phase = "Pending") =>
               (~last.done /\ last.err = Nil)
        /\ (pred.via = "PodRunning" /\ Fetched /\ last.fetched.phase = "Running") =>
               (last.done /\ last.err = Nil)
        /\ (pred.via = "ResourceDeleted" /\ Fetched) => (~last.done /\ last.err = Nil)
        /\ (pred.via = "ResourceDeleted" /\ last.fetchErr = ErrNotFound) =>
               (last.done /\ last.err = Nil)

\* PodRunning returned (false, nil) and, on the next invocation, (true, nil).
C7_Witness ==
    /\ PolledVia("PodRunning") /\ Fetched
    /\ last.fetched.phase = "Running"
    /\ last.done
    /\ last.flipped

\* The general predicate's result for the fetch the latest invocation made.
GeneralOnSameFetch(cl) ==
    LET g == Call(cl, c, obj, [err |-> last.fetchErr, state |-> last.fetched])
    IN <<g.done, g.err>>

\* C8: each derived predicate returns, for every fetch outcome, what its
\* parameterization of the general factory returns; a pod whose Ready
\* condition is False or Unknown is not PodReady.
C8_DerivedAreParameterizations ==
    /\ PolledVia("PodReady") =>
           <<last.done, last.err>> =
               GeneralOnSameFetch(PodConditionMatch(TargetRef, "Ready", "True"))
    /\ PolledVia("ContainersReady") =>
           <<last.done, last.err>> =
               GeneralOnSameFetch(PodConditionMatch(TargetRef, "ContainersReady", "True"))
    /\ PolledVia("PodRunning") =>
           <<last.done, last.err>> = GeneralOnSameFetch(PodPhaseMatch(TargetRef, "Running"))
    /\ PolledVia("JobCompleted") =>
           <<last.done, last.err>> =
               GeneralOnSameFetch(JobConditionMatch(TargetRef, "Complete", "True"))
    /\ PolledVia("JobFailed") =>
           <<last.done, last.err>> =
               GeneralOnSameFetch(JobConditionMatch(TargetRef, "Failed", "True"))
    /\ (/\ PolledVia("PodReady") /\ Fetched
        /\ \A i \in 1..Len(last.fetched.conditions) :
               last.fetched.conditions[i].type = "Ready" =>
                   last.fetched.conditions[i].status \in {"False", "Unknown"}) =>
           ~last.done

C8_Witness ==
    /\ PolledVia("PodReady") /\ Fetched
    /\ ~last.done
    /\ last.fetched.conditions =
           <<[type |-> "Ready", status |-> "Unknown"],
             [type |-> "ContainersReady", status |-> "True"]>>

\* A step that is an invocation of the predicate.
InvokeStep == last'.called /\ last' # last

\* C9: an invocation changes the target object only through its fetch: after
\* an invocation whose fetch succeeded the object holds the fetched state,
\* which is the state the match rule was evaluated on, and the builder's
\* resource accessor and verbosity and the predicate's expected values are
\* unchanged.
C9_InvocationFrame ==
    [][InvokeStep =>
          /\ last'.fetchErr = Nil =>
                 /\ obj' = last'.fetched
                 /\ <<last'.done, last'.err>> = Expected(pred'.fn, Nil, obj')
          /\ c' = c
          /\ pred' = pred]_vars

C9_Witness ==
    /\ PolledVia("JobCompleted") /\ Fetched
    /\ obj = last.fetched
    /\ last.done
    /\ last.flipped
    /\ c.verbose /\ last.logged

\* C10: no invocation of any predicate returns done = true together with a
\* non-nil error.
C10_DoneImpliesNoError == (last.called /\ last.done) => last.err = Nil

C10_Witness ==
    /\ Polled("ResourceDeleted")
    /\ last.fetchErr = ErrNotFound
    /\ last.done /\ last.err = Nil
    /\ obj.kind = "Pod" /\ obj.phase = "Succeeded"

====
